---- MODULE Spec2Model ----
(***************************************************************************)
(* Prayer-time calculation of solaris: src/utils/salahUtils.ts (the        *)
(* normalized-angle version) and src/unnamed/part_000 (the naive modulo    *)
(* version).                                                               *)
(*                                                                         *)
(* Numbers are fixed-point integers.  One degree, one hour and the value   *)
(* 1.0 of a sine are each Scale units.  An angle in radians is counted in  *)
(* units of pi / PiRad, so that toRadians is the linear map deg -> 2*deg   *)
(* and the trigonometric operators are exactly 2*pi-periodic.  The IEEE    *)
(* not-a-number is the value NaN, which every arithmetic step propagates.  *)
(***************************************************************************)
EXTENDS Integers, Sequences, FiniteSets, TLC

Scale == 10000

PiRad == 3600000

NaN == -2000000000

Abs(a) == IF a < 0 THEN -a ELSE a

\* JavaScript's remainder has the sign of the dividend.
JSMod(a, n) == IF a >= 0 THEN a % n ELSE -((-a) % n)

\* Division by a divisor of either sign (the divisor is not zero).
Div(a, b) == IF b > 0 THEN a \div b ELSE (-a) \div (-b)

(***************************************************************************)
(* Math.sin, Math.cos, Math.tan, Math.asin, Math.acos, Math.atan and       *)
(* Math.atan2: a table of the sine at whole degrees with linear            *)
(* interpolation, and the inverse functions by bisection on it.            *)
(***************************************************************************)
SinTable ==
  << 0, 175, 349, 523, 698, 872, 1045, 1219, 1392, 1564, 1736, 1908, 2079,
     2250, 2419, 2588, 2756, 2924, 3090, 3256, 3420, 3584, 3746, 3907, 4067,
     4226, 4384, 4540, 4695, 4848, 5000, 5150, 5299, 5446, 5592, 5736, 5878,
     6018, 6157, 6293, 6428, 6561, 6691, 6820, 6947, 7071, 7193, 7314, 7431,
     7547, 7660, 7771, 7880, 7986, 8090, 8192, 8290, 8387, 8480, 8572, 8660,
     8746, 8829, 8910, 8988, 9063, 9135, 9205, 9272, 9336, 9397, 9455, 9511,
     9563, 9613, 9659, 9703, 9744, 9781, 9816, 9848, 9877, 9903, 9925, 9945,
     9962, 9976, 9986, 9994, 9998, 10000 >>

\* The sine of u, 0 <= u <= pi/2.
SinQ(u) ==
  LET i == u \div (2 * Scale)
      f == u % (2 * Scale)
  IN  IF f = 0 THEN SinTable[i + 1]
      ELSE SinTable[i + 1] + ((SinTable[i + 2] - SinTable[i + 1]) * f) \div (2 * Scale)

Sin(r) ==
  LET t == r % (2 * PiRad)
  IN  IF 2 * t <= PiRad THEN SinQ(t)
      ELSE IF t <= PiRad THEN SinQ(PiRad - t)
      ELSE IF 2 * t <= 3 * PiRad THEN -SinQ(t - PiRad)
      ELSE -SinQ(2 * PiRad - t)

Cos(r) == Sin(r + PiRad \div 2)

\* Math.tan: the quotient is huge, not infinite, where the cosine vanishes.
Tan(r) == IF Cos(r) = 0 THEN Sin(r) * Scale ELSE Div(Sin(r) * Scale, Cos(r))

RECURSIVE AcosSearch(_, _, _)
AcosSearch(lo, hi, v) ==
  IF hi - lo <= 1 THEN lo
  ELSE LET mid == (lo + hi) \div 2
       IN  IF Cos(mid) >= v THEN AcosSearch(mid, hi, v) ELSE AcosSearch(lo, mid, v)

\* Math.acos: NaN outside [-1, 1], else an angle in [0, pi].
Acos(v) ==
  IF v = NaN \/ v > Scale \/ v < -Scale THEN NaN
  ELSE IF v = -Scale THEN PiRad
  ELSE AcosSearch(0, PiRad, v)

RECURSIVE AsinSearch(_, _, _)
AsinSearch(lo, hi, v) ==
  IF hi - lo <= 1 THEN lo
  ELSE LET mid == (lo + hi) \div 2
       IN  IF Sin(mid) <= v THEN AsinSearch(mid, hi, v) ELSE AsinSearch(lo, mid, v)

\* Math.asin: NaN outside [-1, 1], else an angle in [-pi/2, pi/2].
Asin(v) ==
  IF v = NaN \/ v > Scale \/ v < -Scale THEN NaN
  ELSE IF v = Scale THEN PiRad \div 2
  ELSE AsinSearch(-(PiRad \div 2), PiRad \div 2, v)

RECURSIVE AtanSearch(_, _, _, _)
AtanSearch(lo, hi, y, x) ==
  IF hi - lo <= 1 THEN lo
  ELSE LET mid == (lo + hi) \div 2
       IN  IF Sin(mid) * x <= Cos(mid) * y
           THEN AtanSearch(mid, hi, y, x) ELSE AtanSearch(lo, mid, y, x)

\* Math.atan2: the angle of the point (x, y), in (-pi, pi].
Atan2(y, x) ==
  LET m == IF Abs(x) > Abs(y) THEN Abs(x) ELSE Abs(y)
      k == m \div (10 * Scale) + 1
      a == IF x = 0 /\ y = 0 THEN 0
           ELSE IF x = 0 THEN PiRad \div 2
           ELSE AtanSearch(0, PiRad \div 2, Abs(y) \div k, Abs(x) \div k)
  IN  IF x >= 0 /\ y >= 0 THEN a
      ELSE IF x < 0 /\ y >= 0 THEN PiRad - a
      ELSE IF x < 0 THEN a - PiRad
      ELSE -a

\* Math.atan of the quotient num / den (den = 0 is an infinite argument).
Atan(num, den) ==
  IF den = 0 THEN (IF num >= 0 THEN PiRad \div 2 ELSE -(PiRad \div 2))
  ELSE IF den > 0 THEN Atan2(num, den)
  ELSE Atan2(-num, -den)

(***************************************************************************)
(* ./utility: the collaborators the two files import.                      *)
(***************************************************************************)
toRadians(deg) == IF deg = NaN THEN NaN ELSE 2 * deg

toDegrees(rad) == IF rad = NaN THEN NaN ELSE rad \div 2

InvalidDate == [y |-> 0, m |-> 0, d |-> 0]

\* The Julian date of noon of the civil date; NaN for an unparseable string.
getJulianDate(date) ==
  IF date = InvalidDate THEN NaN
  ELSE LET a  == IF date.m <= 2 THEN 1 ELSE 0
           yy == date.y + 4800 - a
           mm == date.m + 12 * a - 3
       IN  date.d + (153 * mm + 2) \div 5 + 365 * yy + yy \div 4
             - yy \div 100 + yy \div 400 - 32045

(***************************************************************************)
(* src/utils/salahUtils.ts: the normalized-angle version.                  *)
(***************************************************************************)
\* returns [0, 360)
normalizeAngle(deg) == JSMod(JSMod(deg, 360 * Scale) + 360 * Scale, 360 * Scale)

\* 357.529 + 0.98560028 * D, in degrees.
MeanAnomalyDeg(D) == 3575290 + 9856 * D + (28 * D) \div 10000

\* 280.459 + 0.98564736 * D, in degrees.
MeanLongitudeDeg(D) == 2804590 + 9856 * D + (4736 * D) \div 10000

\* 23.439 - 0.00000036 * D, in degrees.
ObliquityDeg(D) == 234390 - (36 * D) \div 10000

\* The equation of time left as computed, without the two folding steps.
FoldEquationOfTimeOmitted(e) == e

\* if (equationOfTime > 12) equationOfTime -= 24;
\* if (equationOfTime < -12) equationOfTime += 24;
FoldEquationOfTime(e) ==
  LET e1 == IF e > 12 * Scale THEN e - 24 * Scale ELSE e
  IN  IF e1 < -12 * Scale THEN e1 + 24 * Scale ELSE e1

calculateSolarParameters(julianDate) ==
  IF julianDate = NaN THEN [declination |-> NaN, equationOfTime |-> NaN, unwrapped |-> NaN]
  ELSE
  LET D       == julianDate - 2451545
      gDeg    == normalizeAngle(MeanAnomalyDeg(D))
      qDeg    == normalizeAngle(MeanLongitudeDeg(D))
      LDeg    == normalizeAngle(qDeg + (19150 * Sin(toRadians(gDeg))) \div Scale
                                     + (200 * Sin(2 * toRadians(gDeg))) \div Scale)
      epsilon == toRadians(ObliquityDeg(D))
      RAdeg   == normalizeAngle(toDegrees(
                   Atan2((Cos(epsilon) * Sin(toRadians(LDeg))) \div Scale,
                         Cos(toRadians(LDeg)))))
      RAhrs   == RAdeg \div 15
  IN  [declination    |-> Asin((Sin(epsilon) * Sin(toRadians(LDeg))) \div Scale),
       equationOfTime |-> FoldEquationOfTime(qDeg \div 15 - RAhrs),
       unwrapped      |-> qDeg \div 15 - RAhrs]

(***************************************************************************)
(* src/unnamed/part_000: the naive modulo version.                         *)
(***************************************************************************)
\* The sum (q / 15 - RA + 24) left without its remainder.
NaiveWrapRemainderOmitted(e) == e + 24 * Scale

\* The wrap with 12 added in place of 24.
NaiveWrapHalfDay(e) == JSMod(e + 12 * Scale, 24 * Scale)

\* (q / 15 - RA + 24) % 24
NaiveWrapEquationOfTime(e) == JSMod(e + 24 * Scale, 24 * Scale)

calculateSolarParametersNaive(julianDate) ==
  IF julianDate = NaN THEN [declination |-> NaN, equationOfTime |-> NaN, unwrapped |-> NaN]
  ELSE
  LET D       == julianDate - 2451545
      g       == toRadians(JSMod(MeanAnomalyDeg(D), 360 * Scale))
      q       == JSMod(MeanLongitudeDeg(D), 360 * Scale)
      L       == JSMod(q + (19150 * Sin(g)) \div Scale + (200 * Sin(2 * g)) \div Scale,
                       360 * Scale)
      epsilon == toRadians(ObliquityDeg(D))
      RA      == toDegrees(
                   Atan2((Cos(epsilon) * Sin(toRadians(L))) \div Scale,
                         Cos(toRadians(L)))) \div 15
  IN  [declination    |-> Asin((Sin(epsilon) * Sin(toRadians(L))) \div Scale),
       equationOfTime |-> NaiveWrapEquationOfTime(q \div 15 - RA),
       unwrapped      |-> q \div 15 - RA]

(***************************************************************************)
(* Both files: the hour angle and the assembly of the seven times.         *)
(***************************************************************************)
\* The argument handed to Math.acos: NaN stands for a quotient by zero.
AcosArgument(sinElevation, phi, delta) ==
  IF delta = NaN \/ sinElevation = NaN THEN NaN
  ELSE LET num == sinElevation - (Sin(phi) * Sin(delta)) \div Scale
           den == (Cos(phi) * Cos(delta)) \div Scale
       IN  IF den = 0 THEN NaN ELSE Div(num * Scale, den)

calculateHourAngle(latitude, declination, angle) ==
  Acos(AcosArgument(Sin(toRadians(angle)), toRadians(latitude), declination))

\* The remainder taken without adding 24 first.
Wrap24AddOmitted(x) == IF x = NaN THEN NaN ELSE JSMod(x, 24 * Scale)

\* (x + 24) % 24
Wrap24(x) == IF x = NaN THEN NaN ELSE JSMod(x + 24 * Scale, 24 * Scale)

\* The hour angle added on both sides of noon.
OffsetSignIgnored(a, sign, ha) ==
  IF a = NaN \/ ha = NaN THEN NaN ELSE a + toDegrees(ha) \div 15

\* a + sign * toDegrees(ha) / 15
Offset(a, sign, ha) ==
  IF a = NaN \/ ha = NaN THEN NaN ELSE a + sign * (toDegrees(ha) \div 15)

fajrAngle == 15

ishaAngle == 15

\* -0.833 degrees
shuruqAngle == -8330

\* The offset taken before sunset.
maghribOffsetNegated == -((3 * Scale) \div 60)

\* 3 / 60 hours
maghribOffset == (3 * Scale) \div 60

\* The elevation of the sun at the Hanafi Asr.
AsrElevation(phi, delta) ==
  IF delta = NaN THEN NaN ELSE Atan(Scale, 2 * Scale + Tan(Abs(phi - delta)))

\* The arguments of the four Math.acos calls of calculatePrayerTimes.
AcosArguments(declination, latitude) ==
  LET phi  == toRadians(latitude)
      hAsr == AsrElevation(phi, declination)
  IN  [Fajr   |-> AcosArgument(Sin(toRadians(-fajrAngle * Scale)), phi, declination),
       Isha   |-> AcosArgument(Sin(toRadians(-ishaAngle * Scale)), phi, declination),
       Shuruq |-> AcosArgument(Sin(toRadians(shuruqAngle)), phi, declination),
       Asr    |-> AcosArgument(IF hAsr = NaN THEN NaN ELSE Sin(hAsr), phi, declination)]

\* Noon with the longitude term left out.
NoonOperandLongitudeOmitted(equationOfTime, longitude) ==
  IF equationOfTime = NaN THEN NaN ELSE 12 * Scale - equationOfTime

\* 12 - equationOfTime - longitude / 15
NoonOperand(equationOfTime, longitude) ==
  IF equationOfTime = NaN THEN NaN ELSE 12 * Scale - equationOfTime - longitude \div 15

\* The value x of each of the seven wraps (x + 24) % 24.
WrapOperands(solar, latitude, longitude) ==
  LET declination == solar.declination
      noon     == Wrap24(NoonOperand(solar.equationOfTime, longitude))
      fajrHA   == calculateHourAngle(latitude, declination, -fajrAngle * Scale)
      ishaHA   == calculateHourAngle(latitude, declination, -ishaAngle * Scale)
      shuruqHA == calculateHourAngle(latitude, declination, shuruqAngle)
      sunset   == Wrap24(Offset(noon, 1, shuruqHA))
      phi      == toRadians(latitude)
      delta    == declination
      hAsr     == AsrElevation(phi, delta)
      asrHA    == Acos(AcosArgument(IF hAsr = NaN THEN NaN ELSE Sin(hAsr), phi, delta))
  IN  [Fajr    |-> Offset(noon, -1, fajrHA),
       Shuruq  |-> Offset(noon, -1, shuruqHA),
       Dhuhr   |-> NoonOperand(solar.equationOfTime, longitude),
       Asr     |-> Offset(noon, 1, asrHA),
       Sunset  |-> Offset(noon, 1, shuruqHA),
       Maghrib |-> IF sunset = NaN THEN NaN ELSE sunset + maghribOffset,
       Isha    |-> Offset(noon, 1, ishaHA)]

\* The returned mapping and, with it, what the call computed on the way.
PrayerTimes(solar, latitude, longitude) ==
  LET x == WrapOperands(solar, latitude, longitude)
  IN  [outcome  |-> "mapping",
       times    |-> [k \in DOMAIN x |-> Wrap24(x[k])],
       operands |-> x,
       acosArgs |-> AcosArguments(solar.declination, latitude),
       solar    |-> solar]

calculatePrayerTimes(latitude, longitude, date) ==
  PrayerTimes(calculateSolarParameters(getJulianDate(date)), latitude, longitude)

calculatePrayerTimesNaive(latitude, longitude, date) ==
  PrayerTimes(calculateSolarParametersNaive(getJulianDate(date)), latitude, longitude)

(***************************************************************************)
(* The inputs of a call and the calls made on them.                        *)
(***************************************************************************)
LatSteps == 6

LonSteps == 8

MaxDates == 8

\* Latitudes up to this one count as mid-latitudes.
MidLatitudeLimit == 600000

MidLatitudes ==
  {-MidLatitudeLimit + (i * 2 * MidLatitudeLimit) \div LatSteps : i \in 0..LatSteps}

\* Mecca, both polar regions, the pole, and a latitude that is none.
Latitudes == MidLatitudes \cup {214225, 700000, -700000, 900000, 950000}

\* The grid of longitudes, Mecca, and a longitude that is none.
Longitudes ==
  {-180 * Scale + (i * 360 * Scale) \div LonSteps : i \in 0..LonSteps}
    \cup {398262, 2000000}

DateList ==
  << [y |-> 2024, m |-> 6,  d |-> 21], [y |-> 2024, m |-> 3,  d |-> 21],
     [y |-> 1999, m |-> 7,  d |-> 26], [y |-> 2024, m |-> 12, d |-> 21],
     [y |-> 2024, m |-> 11, d |-> 3],  [y |-> 1999, m |-> 2,  d |-> 11],
     [y |-> 2000, m |-> 1,  d |-> 1],  [y |-> 2024, m |-> 9,  d |-> 22],
     [y |-> 2024, m |-> 2,  d |-> 11], [y |-> 1999, m |-> 12, d |-> 31],
     [y |-> 2025, m |-> 5,  d |-> 14] >>

Dates ==
  {DateList[i] : i \in 1..(IF MaxDates < Len(DateList) THEN MaxDates ELSE Len(DateList))}
    \cup {InvalidDate}

SweepDays == 3

\* Days spread over every month of a year before and a year after J2000.0.
SweepDates ==
  {[y |-> yy, m |-> mm, d |-> 1 + (i * 27) \div SweepDays] :
     yy \in {1999, 2024}, mm \in 1..12, i \in 0..(SweepDays - 1)}

VARIABLES latitude, longitude, date, calls

vars == <<latitude, longitude, date, calls>>

Init ==
  /\ \/ /\ latitude \in Latitudes
        /\ longitude \in Longitudes
        /\ date \in Dates
     \/ /\ latitude \in {-MidLatitudeLimit, 214225}
        /\ longitude \in {-180 * Scale, 180 * Scale}
        /\ date \in SweepDates
  /\ calls = [v \in {"normalized", "naive"} |-> {}]

\* A call of calculatePrayerTimes of salahUtils.ts.
CallNormalized ==
  /\ calls["normalized"] = {}
  /\ calls' = [calls EXCEPT !["normalized"] = {calculatePrayerTimes(latitude, longitude, date)}]
  /\ UNCHANGED <<latitude, longitude, date>>

\* A call of calculatePrayerTimes of part_000.
CallNaive ==
  /\ calls["naive"] = {}
  /\ calls' = [calls EXCEPT !["naive"] = {calculatePrayerTimesNaive(latitude, longitude, date)}]
  /\ UNCHANGED <<latitude, longitude, date>>

Next == CallNormalized \/ CallNaive

Spec == Init /\ [][Next]_vars

(***************************************************************************)
(* The properties.                                                         *)
(***************************************************************************)
Versions == {"normalized", "naive"}

PrayerNames == {"Fajr", "Shuruq", "Dhuhr", "Asr", "Sunset", "Maghrib", "Isha"}

ValidLatitude == -90 * Scale <= latitude /\ latitude <= 90 * Scale

ValidLongitude == -180 * Scale <= longitude /\ longitude <= 180 * Scale

ValidDate == date # InvalidDate

MidLatitude == -MidLatitudeLimit <= latitude /\ latitude <= MidLatitudeLimit

\* No argument of a Math.acos of the call c is outside [-1, 1].
NoDomainError(c) ==
  \A k \in DOMAIN c.acosArgs :
     c.acosArgs[k] # NaN /\ -Scale <= c.acosArgs[k] /\ c.acosArgs[k] <= Scale

\* The spec's frac24(x) = ((x % 24) + 24) % 24.
Frac24(x) ==
  IF x = NaN THEN NaN ELSE JSMod(JSMod(x, 24 * Scale) + 24 * Scale, 24 * Scale)

\* Some wrap of the call c had an operand outside [0, 24).
Wrapped(c) ==
  \E k \in PrayerNames :
     c.operands[k] # NaN /\ (c.operands[k] < 0 \/ c.operands[k] >= 24 * Scale)

\* C1: with a longitude in [-180, 180], a valid date and no arc-cosine
\* argument outside [-1, 1], each of the seven returned values is >= 0 and
\* < 24, in both versions and at every latitude.
C1_RangeInvariant ==
  \A v \in Versions : \A c \in calls[v] :
     (ValidLongitude /\ ValidDate /\ NoDomainError(c))
       => \A k \in PrayerNames : 0 <= c.times[k] /\ c.times[k] < 24 * Scale

\* A call without domain error of which a value was brought back into range.
C1_Witness ==
  \E v \in Versions : \E c \in calls[v] :
     /\ ValidLongitude /\ ValidDate /\ NoDomainError(c)
     /\ c.operands.Fajr < 0 /\ c.times.Fajr = c.operands.Fajr + 24 * Scale

\* The seven values in numeric order.
Ordered(t) ==
  /\ t.Fajr < t.Shuruq /\ t.Shuruq < t.Dhuhr /\ t.Dhuhr < t.Asr
  /\ t.Asr < t.Sunset /\ t.Sunset < t.Maghrib /\ t.Maghrib < t.Isha

\* The hours elapsed since Fajr, on the 24-hour clock.
SinceFajr(t) == [k \in PrayerNames |-> (t[k] - t.Fajr) % (24 * Scale)]

Mecca == latitude = 214225 /\ longitude = 398262 /\ date = [y |-> 2024, m |-> 6, d |-> 21]

\* C3 as stated: for latitude 21.4225, longitude 39.8262 and 2024-06-21 the
\* returned Dhuhr is strictly between 11.5 and 13.5.
C3_DhuhrMecca ==
  \A v \in Versions : \A c \in calls[v] :
     Mecca => (115 * Scale) \div 10 < c.times.Dhuhr /\ c.times.Dhuhr < (135 * Scale) \div 10

\* C3 amended: the returned Dhuhr is the hour of solar noon at longitude 0,
\* strictly between 9 and 10; it is Dhuhr + longitude / 15 that is strictly
\* between 11.5 and 13.5.
C3_DhuhrMeccaUniversalTime ==
  \A v \in Versions : \A c \in calls[v] :
     Mecca => /\ 9 * Scale < c.times.Dhuhr /\ c.times.Dhuhr < 10 * Scale
              /\ (115 * Scale) \div 10 < c.times.Dhuhr + longitude \div 15
              /\ c.times.Dhuhr + longitude \div 15 < (135 * Scale) \div 10

\* Both versions were called for Mecca on 2024-06-21.
C3_Witness ==
  Mecca /\ \A v \in Versions : \E c \in calls[v] : c.times.Dhuhr # NaN

\* C4: a call of which an arc-cosine argument is outside [-1, 1] ends in a
\* domain-error outcome, not in a returned mapping.
C4_DomainErrorSurfaced ==
  \A v \in Versions : \A c \in calls[v] :
     (ValidDate /\ ~NoDomainError(c))
       => /\ c.outcome = "domain-error"
          /\ \A k \in PrayerNames : c.times[k] # NaN

\* C5: a call with a malformed date, or a latitude or longitude out of
\* range, is rejected and returns no mapping.
C5_InputRejected ==
  \A v \in Versions : \A c \in calls[v] :
     ~(ValidDate /\ ValidLatitude /\ ValidLongitude) => c.outcome = "rejected"

\* C6: the equation of time of the normalized-angle version is strictly
\* between -12 and 12 hours, for every Julian date.
C6_EquationOfTimeBound ==
  \A c \in calls["normalized"] :
     ValidDate => /\ -12 * Scale < c.solar.equationOfTime
                  /\ c.solar.equationOfTime < 12 * Scale

\* A call of which the equation of time was folded by 24 hours.
C6_Witness ==
  \E c \in calls["normalized"] :
     /\ ValidDate
     /\ c.solar.unwrapped > 12 * Scale
     /\ c.solar.equationOfTime = c.solar.unwrapped - 24 * Scale

\* C7 as stated: without domain error, Dhuhr - Shuruq = Sunset - Dhuhr and
\* Dhuhr - Fajr = Isha - Dhuhr.
C7_Symmetry ==
  \A v \in Versions : \A c \in calls[v] :
     (ValidLongitude /\ ValidDate /\ NoDomainError(c))
       => /\ c.times.Dhuhr - c.times.Shuruq = c.times.Sunset - c.times.Dhuhr
          /\ c.times.Dhuhr - c.times.Fajr = c.times.Isha - c.times.Dhuhr

\* C7 amended: the two equalities hold modulo 24 hours, and as stated
\* whenever no wrap carried a value across 0 or 24.
C7_SymmetryModulo24 ==
  \A v \in Versions : \A c \in calls[v] :
     (ValidLongitude /\ ValidDate /\ NoDomainError(c))
       => LET t  == c.times
              d1 == (t.Dhuhr - t.Shuruq) - (t.Sunset - t.Dhuhr)
              d2 == (t.Dhuhr - t.Fajr) - (t.Isha - t.Dhuhr)
          IN  /\ d1 % (24 * Scale) = 0
              /\ d2 % (24 * Scale) = 0
              /\ ~Wrapped(c) => (d1 = 0 /\ d2 = 0)

\* A call without domain error of which Fajr alone was carried across 0.
C7_Witness ==
  \E v \in Versions : \E c \in calls[v] :
     /\ ValidLongitude /\ ValidDate /\ NoDomainError(c)
     /\ c.operands.Fajr < 0 /\ c.operands.Isha < 24 * Scale
     /\ c.times.Dhuhr - c.times.Fajr # c.times.Isha - c.times.Dhuhr

FarFromYearBoundary == ValidDate /\ date.m \in 3..10

\* C8: far from a year boundary the equations of time of the two versions
\* differ by less than 1e-6 hours, which is less than one unit.
C8_EquationOfTimeAgreement ==
  \A cn \in calls["normalized"] : \A cv \in calls["naive"] :
     FarFromYearBoundary
       => Abs(cn.solar.equationOfTime - cv.solar.equationOfTime) < 1

\* C9: each of the seven wraps (x + 24) % 24 of calculatePrayerTimes gives
\* frac24(x), its operand x never being below -24, for every longitude in
\* [-180, 180] and every equation of time either version produces.
C9_WrapIsFrac24 ==
  \A v \in Versions : \A c \in calls[v] :
     ValidLongitude
       => \A k \in PrayerNames :
             /\ c.times[k] = Frac24(c.operands[k])
             /\ c.operands[k] = NaN \/ c.operands[k] >= -24 * Scale

\* A call of the naive version of which the equation of time is near 24 and
\* the noon operand negative.
C9_Witness ==
  \E c \in calls["naive"] :
     /\ ValidLongitude /\ ValidDate
     /\ c.solar.equationOfTime > 12 * Scale
     /\ c.operands.Dhuhr < 0
     /\ c.times.Dhuhr = c.operands.Dhuhr + 24 * Scale

\* C10: for every date, latitude and longitude in [-180, 180] the two
\* versions return the same seven times, and their equations of time are
\* congruent modulo 24.
C10_VersionsAgree ==
  \A cn \in calls["normalized"] : \A cv \in calls["naive"] :
     ValidLongitude
       => /\ cn.times = cv.times
          /\ ValidDate =>
               (cn.solar.equationOfTime - cv.solar.equationOfTime) % (24 * Scale) = 0

\* Both versions called on a date before J2000.0 of which the naive
\* equation of time differs from the normalized one.
C10_Witness ==
  \E cn \in calls["normalized"] : \E cv \in calls["naive"] :
     /\ ValidLongitude /\ ValidDate
     /\ getJulianDate(date) < 2451545
     /\ cn.solar.equationOfTime # cv.solar.equationOfTime
     /\ cn.times.Dhuhr = cv.times.Dhuhr /\ cn.times.Dhuhr # NaN

====
